---- MODULE Spec2Model ----
(***************************************************************************)
(* Model of the error-propagation ledger of lib/Core/SymbolicError.cpp.    *)
(*                                                                         *)
(* The ledger is a single object with four containers                      *)
(*   valueErrorMap      : llvm::Value*  -> ref<Expr>                       *)
(*   arrayErrorArrayMap : const Array*  -> const Array*                    *)
(*   storedError        : uintptr_t     -> ref<Expr>                       *)
(*   outputString       : the report text                                  *)
(* and an ArrayCache (errorArrayCache) that creates the error arrays.      *)
(* Every public method is one action.  An assert(!"...") that fires ends   *)
(* the process: the variable fatal records its message and no action is    *)
(* enabled afterwards.                                                     *)
(*                                                                         *)
(* The second half models Z3ErrorSolverImpl of lib/Solver/                 *)
(* Z3ErrorSolver.cpp: runStatusCode, the SolverStats counters, the backend *)
(* sessions and the builder's construct cache.  Every query entry point is *)
(* one action; the backend's answer to a check is an input of the action.  *)
(***************************************************************************)
EXTENDS Integers, Sequences, FiniteSets, TLC

VARIABLES valueErrorMap, arrayErrorArrayMap, errorArrayCache, createCalls,
          storedError, outputString, fatal, last, prev, storeLog, nOps,
          runStatusCode, stats, liveSessions, sessionsMade, constructCache,
          lastQuery, timeout, timeoutInMilliSeconds, lastTimeout

\* the ledger's own variables, and the solver's
ledgerVars == <<valueErrorMap, arrayErrorArrayMap, errorArrayCache,
                createCalls, storedError, outputString, last, prev, storeLog>>

solverVars == <<runStatusCode, stats, liveSessions, sessionsMade,
                constructCache, lastQuery>>

\* the solver's timeout setting
paramVars == <<timeout, timeoutInMilliSeconds, lastTimeout>>

vars == <<ledgerVars, solverVars, paramVars, fatal, nOps>>

(***************************************************************************)
(* Bounds of the model.                                                    *)
(***************************************************************************)
\* number of ledger calls in one run
MaxOps == 2
\* number of ledger calls in one run that propagates no arithmetic instruction
MaxOpsNoArith == 3
\* number of solver queries in one run
MaxQueries == 3
\* number of setCoreSolverTimeout calls in one run
MaxSets == 3
\* the longest of the short durations, in units of 1/16384 s
MaxTicks == 40

(***************************************************************************)
(* Program constants.                                                      *)
(***************************************************************************)
\* Expr::Int8, the width of an error read and of the zero error
Int8 == 8

(***************************************************************************)
(* Expression IR.  A node is a record of one fixed shape; kids is the      *)
(* sequence of sub-expressions.  A null ref<Expr> is the node NullExpr.    *)
(* The create() functions build the node they are named after.             *)
(***************************************************************************)
NullExpr == [op |-> "null", w |-> 0, val |-> 0, name |-> "", kids |-> <<>>]

ConstantExpr(v, w) ==
  [op |-> "Constant", w |-> w, val |-> v, name |-> "", kids |-> <<>>]

\* ReadExpr::create(UpdateList(array, 0), index): one byte of an array
ReadExpr(array, index) ==
  [op |-> "Read", w |-> Int8, val |-> index, name |-> array, kids |-> <<>>]

ConcatExpr(l, r) ==
  [op |-> "Concat", w |-> l.w + r.w, val |-> 0, name |-> "", kids |-> <<l, r>>]

SExtExpr(e, w) ==
  [op |-> "SExt", w |-> w, val |-> 0, name |-> "", kids |-> <<e>>]

ZExtExpr(e, w) ==
  [op |-> "ZExt", w |-> w, val |-> 0, name |-> "", kids |-> <<e>>]

AddExpr(l, r) ==
  [op |-> "Add", w |-> l.w, val |-> 0, name |-> "", kids |-> <<l, r>>]

SubExpr(l, r) ==
  [op |-> "Sub", w |-> l.w, val |-> 0, name |-> "", kids |-> <<l, r>>]

MulExpr(l, r) ==
  [op |-> "Mul", w |-> l.w, val |-> 0, name |-> "", kids |-> <<l, r>>]

UDivExpr(l, r) ==
  [op |-> "UDiv", w |-> l.w, val |-> 0, name |-> "", kids |-> <<l, r>>]

isNull(e) == e = NullExpr

isConstant(e) == e.op = "Constant"

(***************************************************************************)
(* std::map.  A map is a function whose DOMAIN is the set of keys present. *)
(***************************************************************************)
EmptyMap == [k \in {} |-> NullExpr]

\* m[k] = v
MapPut(m, k, v) == [x \in (DOMAIN m) \cup {k} |-> IF x = k THEN v ELSE m[x]]

\* the map after evaluating m[k]: operator[] default-constructs a missing entry
MapTouch(m, k, dflt) == IF k \in DOMAIN m THEN m ELSE MapPut(m, k, dflt)

\* the value of m[k]
MapGet(m, k, dflt) == IF k \in DOMAIN m THEN m[k] ELSE dflt

(***************************************************************************)
(* Keys.                                                                   *)
(***************************************************************************)
\* llvm::Value pointers: the null pointer and three program values, numbered
\* in the order the program defines them
NullValue == 0
Values == {1, 2, 3}
\* the values an instruction can use as operands: those defined before it
Earlier(instr) == {v \in Values : v < instr}
\* the concrete addresses of the run
Addrs == {16, 24}
Arrays == {"x", "y"}
NullArray == ""

ErrorName(array) == "_unspecified_error_" \o array

(***************************************************************************)
(* The ledger as one value, so that a method is an operator from ledger to *)
(* ledger.  calls lists the names CreateArray was called with, in order;   *)
(* cache is the set of arrays errorArrayCache holds.                       *)
(***************************************************************************)
Ledger ==
  [vem |-> valueErrorMap, aem |-> arrayErrorArrayMap, cache |-> errorArrayCache,
   calls |-> createCalls, store |-> storedError, out |-> outputString,
   fatal |-> fatal]

\* ArrayCache::CreateArray(name, Expr::Int8): the array of that name
CreateArray(L, name) ==
  [L EXCEPT !.cache = @ \cup {name},
            !.calls = Append(@, name)]

\* ErrorOfArray without the lookup: a new error array on every reference
ErrorOfArray_AlwaysCreates(L, array) ==
  LET made == CreateArray(L, ErrorName(array))
  IN  [L |-> [made EXCEPT !.aem = MapPut(@, array, ErrorName(array))],
       ret |-> ReadExpr(ErrorName(array), 0)]

\* lines 29-45 and 47-61: the error array of an array, created on first use,
\* and a read of its byte 0
ErrorOfArray(L, array) ==
  LET touched == [L EXCEPT !.aem = MapTouch(@, array, NullArray)]
      errorArray == touched.aem[array]
  IN  IF errorArray = NullArray
        THEN LET made == CreateArray(touched, ErrorName(array))
             IN  [L |-> [made EXCEPT !.aem = MapPut(@, array, ErrorName(array))],
                  ret |-> ReadExpr(ErrorName(array), 0)]
        ELSE [L |-> touched, ret |-> ReadExpr(errorArray, 0)]

\* assert(!"..."): the process ends with that message
Abort(L, message) == [L EXCEPT !.fatal = message]

\* Memoize without the write to valueErrorMap
Memoize_Skipped(R, value) == R

\* lines 73-76
Memoize(R, value) ==
  IF value # NullValue
    THEN [L |-> [R.L EXCEPT !.vem = MapPut(@, value, R.ret)], ret |-> R.ret]
    ELSE R

\* the zero error of the last branch of getError at the width of the operand
\* instead of Expr::Int8
OtherShape_OperandWidth(L0, valueExpr, value) ==
  IF ~isConstant(valueExpr)
    THEN [L |-> Abort(L0, "malformed expression"), ret |-> NullExpr]
    ELSE Memoize([L |-> L0, ret |-> ConstantExpr(0, valueExpr.w)], value)

\* the last branch of getError with the assertion compiled out
OtherShape_NoAssert(L0, valueExpr, value) ==
  Memoize([L |-> L0, ret |-> ConstantExpr(0, Int8)], value)

\* the last branch of getError: the expression is none of Concat, Read, SExt
\* and Add.  Anything but a constant fails the assertion; a constant has the
\* error zero.
OtherShape(L0, valueExpr, value) ==
  IF ~isConstant(valueExpr)
    THEN [L |-> Abort(L0, "malformed expression"), ret |-> NullExpr]
    ELSE Memoize([L |-> L0, ret |-> ConstantExpr(0, Int8)], value)

\* SymbolicError::getError(executor, valueExpr, value); value defaults to null.
\* The result is the ledger after the call and the returned expression; when
\* the ledger is fatal the call did not return and ret means nothing.
RECURSIVE getError(_, _, _)
getError(L, valueExpr, value) ==
  LET L0 == IF value # NullValue
              THEN [L EXCEPT !.vem = MapTouch(@, value, NullExpr)]
              ELSE L
  IN
  IF value # NullValue /\ ~isNull(L0.vem[value])
    THEN [L |-> L0, ret |-> L0.vem[value]]
  ELSE IF valueExpr.op = "Concat"
    THEN Memoize(ErrorOfArray(L0, valueExpr.kids[1].name), value)
  ELSE IF valueExpr.op = "Read"
    THEN Memoize(ErrorOfArray(L0, valueExpr.name), value)
  ELSE IF valueExpr.op = "SExt"
    THEN LET k == getError(L0, valueExpr.kids[1], NullValue)
         IN  IF k.L.fatal # "none" THEN k ELSE Memoize(k, value)
  ELSE IF valueExpr.op = "Add"
    THEN LET lhs == getError(L0, valueExpr.kids[1], NullValue)
             rhs == getError(lhs.L, valueExpr.kids[2], NullValue)
         IN  IF lhs.L.fatal # "none" THEN lhs
             ELSE IF rhs.L.fatal # "none" THEN rhs
             ELSE Memoize([L |-> rhs.L, ret |-> AddExpr(lhs.ret, rhs.ret)], value)
  ELSE OtherShape(L0, valueExpr, value)

(***************************************************************************)
(* propagateError.  Opcodes is the set of instruction opcodes the model    *)
(* draws from; "Other" stands for every opcode of the default branch.      *)
(***************************************************************************)
Opcodes == {"Add", "Sub", "Mul", "UDiv", "SDiv", "Other"}

\* Extend that only widens: an error wider than the operand is left alone
Extend_OnlyNarrower(error, argument) ==
  IF error.w < argument.w THEN ZExtExpr(error, argument.w) ELSE error

\* lines 135-142: the operand's error brought to the operand's width
Extend(error, argument) ==
  IF error.w # argument.w THEN ZExtExpr(error, argument.w) ELSE error

\* lines 143-145: lError * arguments[0] + rError * arguments[1]
WeightedSum(lError, rError, arguments) ==
  AddExpr(MulExpr(Extend(lError, arguments[1]), arguments[1]),
          MulExpr(Extend(rError, arguments[2]), arguments[2]))

\* lines 145-151: what the Add branch stores and returns
AddResult(lError, rError, arguments, result) ==
  IF isConstant(result) /\ result.val # 0
    THEN UDivExpr(WeightedSum(lError, rError, arguments), result)
    ELSE result

\* SubResult with the operands of the division exchanged
SubResult_Swapped(lError, rError, arguments, result) ==
  UDivExpr(result, WeightedSum(lError, rError, arguments))

\* lines 169-173: what the Sub branch stores and returns
SubResult(lError, rError, arguments, result) ==
  UDivExpr(WeightedSum(lError, rError, arguments), result)

\* lines 182-192, 201-211, 220-230: what Mul, UDiv and SDiv store and return
MulResult(lError, rError, arguments) ==
  AddExpr(Extend(lError, arguments[1]), Extend(rError, arguments[2]))

\* lines 234-242: the error of the first operand valueErrorMap.find() finds
RECURSIVE DefaultError(_, _, _, _)
DefaultError(vem, operands, i, s) ==
  IF i > s THEN ConstantExpr(0, Int8)
  ELSE IF operands[i] \in DOMAIN vem THEN vem[operands[i]]
  ELSE DefaultError(vem, operands, i + 1, s)

\* the value one arithmetic branch computes from the two operand errors
BranchResult(opcode, lError, rError, arguments, result) ==
  CASE opcode = "Add" -> AddResult(lError, rError, arguments, result)
    [] opcode = "Sub" -> SubResult(lError, rError, arguments, result)
    [] OTHER -> MulResult(lError, rError, arguments)

\* SymbolicError::propagateError(executor, instr, result, arguments), where
\* opcode = instr->getOpcode() and operands[i] = instr->getOperand(i-1)
propagateError(L, instr, opcode, operands, result, arguments) ==
  IF opcode \in {"Add", "Sub", "Mul", "UDiv", "SDiv"}
    THEN LET l == getError(L, arguments[1], operands[1])
             r == getError(l.L, arguments[2], operands[2])
             res == BranchResult(opcode, l.ret, r.ret, arguments, result)
         IN  IF l.L.fatal # "none" THEN l
             ELSE IF r.L.fatal # "none" THEN r
             ELSE [L |-> [r.L EXCEPT !.vem = MapPut(@, instr, res)], ret |-> res]
    ELSE LET error == DefaultError(L.vem, operands, 1, Len(arguments))
         IN  [L |-> [L EXCEPT !.vem = MapPut(@, instr, error)], ret |-> error]

(***************************************************************************)
(* executeStore and executeLoad.  An address is an expression; the key of  *)
(* storedError is the value of a constant address.                         *)
(***************************************************************************)
\* executeStore that keeps the first error stored at an address (insert()
\* in place of operator[])
executeStore_KeepsFirst(L, address, error) ==
  IF isNull(error) THEN [L |-> L, ret |-> NullExpr]
  ELSE IF isConstant(address)
    THEN [L |-> [L EXCEPT !.store = MapTouch(@, address.val, error)],
          ret |-> NullExpr]
  ELSE [L |-> Abort(L, "non-constant address"), ret |-> NullExpr]

\* SymbolicError::executeStore(address, error); returns nothing
executeStore(L, address, error) ==
  IF isNull(error) THEN [L |-> L, ret |-> NullExpr]
  ELSE IF isConstant(address)
    THEN [L |-> [L EXCEPT !.store = MapPut(@, address.val, error)],
          ret |-> NullExpr]
  ELSE [L |-> Abort(L, "non-constant address"), ret |-> NullExpr]

\* executeLoad that takes a non-constant address for a never-stored one
executeLoad_NoAbort(L, value, address) ==
  LET zero == ConstantExpr(0, Int8)
      error == IF isConstant(address) /\ address.val \in DOMAIN L.store
                 THEN L.store[address.val] ELSE zero
  IN  [L |-> [L EXCEPT !.vem = MapPut(@, value, error)], ret |-> error]

\* executeLoad that looks the address up with storedError[...], which
\* inserts a null error for an address never stored to
executeLoad_Inserts(L, value, address) ==
  LET zero == ConstantExpr(0, Int8)
      touched == [L EXCEPT !.store = MapTouch(@, address.val, NullExpr)]
      error == IF isNull(touched.store[address.val]) THEN zero
               ELSE touched.store[address.val]
  IN  IF isConstant(address)
        THEN [L |-> [touched EXCEPT !.vem = MapPut(@, value, error)],
              ret |-> error]
        ELSE [L |-> Abort(L, "non-constant address"), ret |-> NullExpr]

\* SymbolicError::executeLoad(value, address)
executeLoad(L, value, address) ==
  LET zero == ConstantExpr(0, Int8)
      error == IF address.val \in DOMAIN L.store THEN L.store[address.val]
               ELSE zero
  IN  IF isConstant(address)
        THEN [L |-> [L EXCEPT !.vem = MapPut(@, value, error)], ret |-> error]
        ELSE [L |-> Abort(L, "non-constant address"), ret |-> NullExpr]

(***************************************************************************)
(* outputErrorBound.  The report is the sequence of the pieces written to  *)
(* outputString: a divider, or one assertion with its location prefix      *)
(* ("dbg": line, file and function; "func": the function name alone), the  *)
(* expression printed and the bound.  The name __error__<id> is derived    *)
(* from the expression and is not kept apart.                              *)
(***************************************************************************)
Divider == [kind |-> "divider", loc |-> "none", e |-> NullExpr, bound |-> 0]

Assertion(loc, e, bound) ==
  [kind |-> "entry", loc |-> loc, e |-> e, bound |-> bound]

\* outputErrorBound that writes the divider before the first assertion too
outputErrorBound_AlwaysDivider(L, operand0, loc, bound) ==
  LET touched == [L EXCEPT !.vem = MapTouch(@, operand0, NullExpr)]
      found == touched.vem[operand0]
      e == IF isNull(found) THEN ConstantExpr(0, Int8) ELSE found
  IN  [L |-> [touched EXCEPT
                !.out = @ \o <<Divider>> \o <<Assertion(loc, e, bound)>>],
       ret |-> NullExpr]

\* SymbolicError::outputErrorBound(inst, bound), where operand0 is
\* dyn_cast<Instruction>(inst->getOperand(0)): NullValue when the operand is
\* not an instruction
outputErrorBound(L, operand0, loc, bound) ==
  LET touched == [L EXCEPT !.vem = MapTouch(@, operand0, NullExpr)]
      found == touched.vem[operand0]
      e == IF isNull(found) THEN ConstantExpr(0, Int8) ELSE found
      sep == IF touched.out # <<>> THEN <<Divider>> ELSE <<>>
  IN  [L |-> [touched EXCEPT !.out = @ \o sep \o <<Assertion(loc, e, bound)>>],
       ret |-> NullExpr]

(***************************************************************************)
(* Z3ErrorSolverImpl of lib/Solver/Z3ErrorSolver.cpp.                      *)
(*                                                                         *)
(* A numeral of the backend's model is the rational num/den in lowest      *)
(* terms, den >= 1.  Z3_get_numeral_int succeeds on it when it is an       *)
(* integer that fits an int.                                               *)
(***************************************************************************)
Numeral(num, den) == [num |-> num, den |-> den]
IsInt(n) == n.den = 1

\* the unsigned chars pushed by: for (i < k) { push(v & 255); v = v >> 8; }
\* on the int v, the shift of a negative int keeping the sign
RECURSIVE IntBytes(_, _)
IntBytes(v, k) ==
  IF k = 0 THEN <<>> ELSE <<v % 256>> \o IntBytes(v \div 256, k - 1)

\* binary digits, most significant first
RECURSIVE Bits(_, _)
Bits(v, k) ==
  IF k = 0 THEN <<>> ELSE Bits(v \div 2, k - 1) \o <<v % 2>>

\* the exponent e and the fraction p/q in [1, 2) with a/b = (p/q) * 2^e
RECURSIVE Normalize(_, _, _)
Normalize(p, q, e) ==
  IF p >= 2 * q THEN Normalize(p, 2 * q, e + 1)
  ELSE IF p < q THEN Normalize(2 * p, q, e - 1)
  ELSE [p |-> p, q |-> q, e |-> e]

\* 13 binary digits at a time: the next 13 digits of r/q < 1 after the point
\* as a number, and what remains of r
Chunk == 8192
Digits13(r, q) == [c |-> (r * Chunk) \div q, r |-> (r * Chunk) % q]

\* the 52 digits of the fraction (p - q)/q of a double, as four numbers of 13
\* digits, rounded to nearest with ties to even; carry is 1 when the
\* rounding wrapped them to zero
Mantissa(p, q) ==
  LET d1 == Digits13(p - q, q)
      d2 == Digits13(d1.r, q)
      d3 == Digits13(d2.r, q)
      d4 == Digits13(d3.r, q)
      up == \/ 2 * d4.r > q
            \/ 2 * d4.r = q /\ d4.c % 2 = 1
      s4 == d4.c + (IF up THEN 1 ELSE 0)
      s3 == d3.c + s4 \div Chunk
      s2 == d2.c + s3 \div Chunk
      s1 == d1.c + s2 \div Chunk
  IN  [bits |-> Bits(s1 % Chunk, 13) \o Bits(s2 % Chunk, 13)
                  \o Bits(s3 % Chunk, 13) \o Bits(s4 % Chunk, 13),
       carry |-> s1 \div Chunk]

\* the value of eight binary digits
ByteOf(bits) ==
  128 * bits[1] + 64 * bits[2] + 32 * bits[3] + 16 * bits[4]
    + 8 * bits[5] + 4 * bits[6] + 2 * bits[7] + bits[8]

\* the 64 binary digits of the IEEE-754 binary64 nearest to num/den (ties to
\* even): sign, 11 digits of biased exponent, 52 digits of fraction.  This is
\* what (double)num / (double)den holds for ints num and den.
DoubleBits(num, den) ==
  IF num = 0 THEN [i \in 1 .. 64 |-> 0]
  ELSE
    LET sign == IF num < 0 THEN 1 ELSE 0
        a == IF num < 0 THEN 0 - num ELSE num
        n == Normalize(a, den, 0)
        m == Mantissa(n.p, n.q)
    IN  <<sign>> \o Bits(n.e + m.carry + 1023, 11) \o m.bits

\* memcpy of the double to a uint64_t, then its bytes, least significant first
DoubleBytes(num, den) ==
  LET b == DoubleBits(num, den)
  IN  [i \in 1 .. 8 |-> ByteOf(SubSeq(b, 65 - 8 * i, 72 - 8 * i))]

(***************************************************************************)
(* The solver object and one backend call.  status is runStatusCode, stats *)
(* the four counters of SolverStats, live the backend sessions (Z3_solver  *)
(* or Z3_optimize) holding a reference, made the number of sessions made   *)
(* so far, cache the construct cache of the builder.  The backend's answer *)
(* to a check is an input: result, reason_unknown, and per requested array *)
(* the numeral of its initial read (model) and its upper-bound vector      *)
(* (upper: infinity coefficient, bound, epsilon coefficient).              *)
(***************************************************************************)
Solver ==
  [status |-> runStatusCode, stats |-> stats, live |-> liveSessions,
   made |-> sessionsMade, cache |-> constructCache, fatal |-> fatal]

NoStats ==
  [queries |-> 0, queryCounterexamples |-> 0, queriesValid |-> 0,
   queriesInvalid |-> 0]

\* the objects argument: a null pointer, or a vector of arrays
NullObjects == [null |-> TRUE, arrays |-> <<>>]
Objects(arrays) == [null |-> FALSE, arrays |-> arrays]

\* one backend API call of a session, as it appears in the call's trace
Event(ev, neg, arg) == [ev |-> ev, neg |-> neg, arg |-> arg]

\* the 8 bytes handleSolverResponse pushes for one numeral
Encode(n) ==
  IF IsInt(n) THEN IntBytes(n.num, 8) ELSE DoubleBytes(n.num, n.den)

\* handleSolverResponse with "unknown" reported as a timeout
handleSolverResponse_UnknownIsTimeout(response, objects, hasSolution) ==
  [status |-> IF response.result = "TRUE" THEN "SOLVABLE"
              ELSE IF response.result = "FALSE" THEN "UNSOLVABLE"
              ELSE "TIMEOUT",
   hasSolution |-> IF response.result = "UNDEF" THEN hasSolution
                   ELSE response.result = "TRUE",
   values |-> IF response.result = "TRUE" /\ ~objects.null
                THEN [i \in 1 .. Len(objects.arrays) |->
                        Encode(response.model[i])]
                ELSE <<>>,
   abort |-> FALSE]

\* Z3ErrorSolverImpl::handleSolverResponse: the status, hasSolution after the
\* call (it is written only for TRUE and FALSE), the buffers pushed to
\* values, and whether abort() was called
handleSolverResponse(response, objects, hasSolution) ==
  IF response.result = "TRUE"
    THEN [status |-> "SOLVABLE", hasSolution |-> TRUE,
          values |-> IF objects.null THEN <<>>
                     ELSE [i \in 1 .. Len(objects.arrays) |->
                             Encode(response.model[i])],
          abort |-> FALSE]
  ELSE IF response.result = "FALSE"
    THEN [status |-> "UNSOLVABLE", hasSolution |-> FALSE, values |-> <<>>,
          abort |-> FALSE]
  ELSE IF response.reason \in {"timeout", "canceled"}
    THEN [status |-> "TIMEOUT", hasSolution |-> hasSolution,
          values |-> <<>>, abort |-> FALSE]
  ELSE IF response.reason = "unknown"
    THEN [status |-> "FAILURE", hasSolution |-> hasSolution,
          values |-> <<>>, abort |-> FALSE]
  ELSE [status |-> "FAILURE", hasSolution |-> hasSolution, values |-> <<>>,
        abort |-> TRUE]

\* Z3ErrorSolverImpl::handleOptimizeResponse: as above; of each upper-bound
\* vector only entry 1 is decoded, to a double pushed to values, and nothing
\* is pushed to infinity or epsilon
handleOptimizeResponse(response, objects, hasSolution) ==
  IF response.result = "TRUE"
    THEN [status |-> "SOLVABLE", hasSolution |-> TRUE,
          infinity |-> <<>>,
          values |-> IF objects.null THEN <<>>
                     ELSE [i \in 1 .. Len(objects.arrays) |->
                             DoubleBits(response.upper[i].bound.num,
                                        response.upper[i].bound.den)],
          epsilon |-> <<>>,
          abort |-> FALSE]
  ELSE IF response.result = "FALSE"
    THEN [status |-> "UNSOLVABLE", hasSolution |-> FALSE, infinity |-> <<>>,
          values |-> <<>>, epsilon |-> <<>>, abort |-> FALSE]
  ELSE IF response.reason \in {"timeout", "canceled"}
    THEN [status |-> "TIMEOUT", hasSolution |-> hasSolution,
          infinity |-> <<>>, values |-> <<>>, epsilon |-> <<>>,
          abort |-> FALSE]
  ELSE IF response.reason = "unknown"
    THEN [status |-> "FAILURE", hasSolution |-> hasSolution,
          infinity |-> <<>>, values |-> <<>>, epsilon |-> <<>>,
          abort |-> FALSE]
  ELSE [status |-> "FAILURE", hasSolution |-> hasSolution, infinity |-> <<>>,
        values |-> <<>>, epsilon |-> <<>>, abort |-> TRUE]

\* the counters of a finished query with valid and invalid exchanged
CountOutcome_Swapped(st, status, hasSolution) ==
  IF status \in {"SOLVABLE", "UNSOLVABLE"}
    THEN IF hasSolution
           THEN [st EXCEPT !.queriesValid = @ + 1]
           ELSE [st EXCEPT !.queriesInvalid = @ + 1]
    ELSE st

\* the counters after the status of a query is known
CountOutcome(st, status, hasSolution) ==
  IF status \in {"SOLVABLE", "UNSOLVABLE"}
    THEN IF hasSolution
           THEN [st EXCEPT !.queriesInvalid = @ + 1]
           ELSE [st EXCEPT !.queriesValid = @ + 1]
    ELSE st

\* the start of a query without the reset of runStatusCode
Begin_NoReset(Z, session, query, objects) ==
  [Z EXCEPT
     !.live = @ \cup {session},
     !.made = session,
     !.cache = @ \cup {query.constraints[i] : i \in DOMAIN query.constraints},
     !.stats = [@ EXCEPT
                  !.queries = @ + 1,
                  !.queryCounterexamples =
                     IF objects.null THEN @ ELSE @ + 1]]

\* the start of a query: the session is made and referenced, runStatusCode
\* reset, every constraint constructed and asserted, the counters stepped
Begin(Z, session, query, objects) ==
  [Z EXCEPT
     !.live = @ \cup {session},
     !.made = session,
     !.status = "FAILURE",
     !.cache = @ \cup {query.constraints[i] : i \in DOMAIN query.constraints},
     !.stats = [@ EXCEPT
                  !.queries = @ + 1,
                  !.queryCounterexamples =
                     IF objects.null THEN @ ELSE @ + 1]]

\* the end of a query that keeps the session of a query without status
End_KeepsOnFailure(Z, session, h) ==
  IF h.abort
    THEN [Z EXCEPT !.fatal = "abort"]
    ELSE [Z EXCEPT
            !.status = h.status,
            !.live = IF h.status \in {"SOLVABLE", "UNSOLVABLE"}
                       THEN @ \ {session} ELSE @,
            !.cache = {},
            !.stats = CountOutcome(@, h.status, h.hasSolution)]

\* the end of a query: abort() ends the process where it is called; else
\* the status is stored, the session released, the cache cleared and the
\* outcome counted
End(Z, session, h) ==
  IF h.abort
    THEN [Z EXCEPT !.fatal = "abort"]
    ELSE [Z EXCEPT
            !.status = h.status,
            !.live = @ \ {session},
            !.cache = {},
            !.stats = CountOutcome(@, h.status, h.hasSolution)]

\* the backend calls of a query after the check, in the order made
Closing(h) ==
  IF h.abort THEN <<Event("reason_unknown", FALSE, ""), Event("abort", FALSE, "")>>
  ELSE <<Event("response", FALSE, h.status), Event("dec_ref", FALSE, ""),
         Event("clearConstructCache", FALSE, "")>>

\* Z3ErrorSolverImpl::internalRunSolver: the solver after the call, what it
\* returned and what it wrote to its outputs (isValid is written by
\* computeTruth alone)
internalRunSolver(Z, query, objects, hasSolution, response) ==
  LET session == Z.made + 1
      Z1 == Begin(Z, session, query, objects)
      Z2 == [Z1 EXCEPT !.cache = @ \cup {query.expr}]
      h == handleSolverResponse(response, objects, hasSolution)
  IN  [Z |-> End(Z2, session, h),
       ret |-> h.status \in {"SOLVABLE", "UNSOLVABLE"},
       hasSolution |-> h.hasSolution, isValid |-> FALSE,
       infinity |-> <<>>, values |-> h.values, epsilon |-> <<>>,
       trace |-> <<Event("mk_simple_solver", FALSE, "")>>
                   \o [i \in DOMAIN query.constraints |->
                         Event("assert", FALSE, query.constraints[i])]
                   \o <<Event("assert", TRUE, query.expr),
                        Event("check", FALSE, "")>>
                   \o Closing(h)]

\* Z3ErrorSolverImpl::internalRunOptimize
internalRunOptimize(Z, query, objects, hasSolution, response) ==
  LET session == Z.made + 1
      Z1 == Begin(Z, session, query, objects)
      h == handleOptimizeResponse(response, objects, hasSolution)
  IN  [Z |-> End(Z1, session, h),
       ret |-> h.status \in {"SOLVABLE", "UNSOLVABLE"},
       hasSolution |-> h.hasSolution, isValid |-> FALSE,
       infinity |-> h.infinity, values |-> h.values, epsilon |-> h.epsilon,
       trace |-> <<Event("mk_optimize", FALSE, "")>>
                   \o [i \in DOMAIN query.constraints |->
                         Event("assert", FALSE, query.constraints[i])]
                   \o [i \in DOMAIN objects.arrays |->
                         Event("maximize", FALSE, objects.arrays[i])]
                   \o <<Event("check", FALSE, "")>>
                   \o Closing(h)]

\* Z3ErrorSolverImpl::computeTruth.  Its local hasSolution is not
\* initialized: uninitialized is the value it holds before the call.
computeTruth(Z, query, uninitialized, response) ==
  LET r == internalRunSolver(Z, query, NullObjects, uninitialized, response)
  IN  [r EXCEPT !.isValid = ~r.hasSolution]

\* Z3ErrorSolverImpl::computeInitialValues; hasSolution is the caller's
computeInitialValues(Z, query, arrays, hasSolution, response) ==
  internalRunSolver(Z, query, Objects(arrays), hasSolution, response)

\* Z3ErrorSolverImpl::computeOptimalValues; hasSolution is the caller's
computeOptimalValues(Z, query, arrays, hasSolution, response) ==
  internalRunOptimize(Z, query, Objects(arrays), hasSolution, response)

\* Z3ErrorSolverImpl::getOperationStatusCode
getOperationStatusCode(Z) == Z.status

\* findSymbolicObjects(expr): the arrays an expression reads, in order
ArraysOf(expr) ==
  IF expr = "g" THEN <<"x">>
  ELSE IF expr = "h" THEN <<"x", "y">>
  ELSE <<>>

\* Query::withFalse(): the same constraints, the expression false
withFalse(query) == [query EXCEPT !.expr = "false"]

\* Assignment(objects, values).evaluate(expr): the expression with the
\* bytes of the assignment put for its arrays, kept as a term
Evaluated(expr, arrays, values) ==
  [expr |-> expr, arrays |-> arrays, values |-> values]

\* the caller's result before computeValue writes it
Untouched == Evaluated("", <<>>, <<>>)

\* what computeValue leaves after computeInitialValues returned r: the
\* assertion on hasSolution when asserts, and the evaluation of the
\* caller's expression under the assignment
Finished(query, arrays, r, asserts) ==
  LET success == r.Z.fatal = "none" /\ r.ret
      failed == asserts /\ success /\ ~r.hasSolution
  IN  [Z |-> IF failed
               THEN [r.Z EXCEPT !.fatal = "state has invalid constraint set"]
               ELSE r.Z,
       ret |-> r.ret, hasSolution |-> r.hasSolution,
       isValid |-> FALSE, infinity |-> <<>>, values |-> r.values,
       epsilon |-> <<>>, trace |-> r.trace,
       result |-> IF success /\ ~failed
                    THEN Evaluated(query.expr, arrays, r.values)
                    ELSE Untouched]

\* computeValue without the assertion on hasSolution
computeValue_NoAssert(Z, query, uninitialized, response) ==
  Finished(query, ArraysOf(query.expr),
           computeInitialValues(Z, withFalse(query), ArraysOf(query.expr),
                                uninitialized, response),
           FALSE)

\* Z3ErrorSolverImpl::computeValue.  Its local hasSolution is not
\* initialized (uninitialized); it is read only after a computeInitialValues
\* that returned true, which has written it.
computeValue(Z, query, uninitialized, response) ==
  Finished(query, ArraysOf(query.expr),
           computeInitialValues(Z, withFalse(query), ArraysOf(query.expr),
                                uninitialized, response),
           TRUE)

(***************************************************************************)
(* setCoreSolverTimeout.  A duration is the double secs + ticks/16384      *)
(* seconds, 0 <= ticks < 16384; for these the products and sums of the     *)
(* code are exact in double arithmetic.  An unsigned int is kept as its    *)
(* two 16-bit halves.                                                      *)
(***************************************************************************)
Duration(secs, ticks) == [secs |-> secs, ticks |-> ticks]

TicksPerSecond == 16384
Half == 65536

UInt(hi, lo) == [hi |-> hi, lo |-> lo]
UINT_MAX == UInt(Half - 1, Half - 1)

\* timeout * 1000 + 0.5 with the fraction dropped, as the number of
\* 4294967296s in it (over) and the rest as an unsigned int
Milliseconds(d) ==
  LET f == (2000 * d.ticks + TicksPerSecond) \div (2 * TicksPerSecond)
      low == 1000 * (d.secs % Half) + f
      high == 1000 * (d.secs \div Half) + low \div Half
  IN  [over |-> high \div Half, value |-> UInt(high % Half, low % Half)]

\* the values the conversion (unsigned int)x can give: x without its
\* fraction when that fits; otherwise the conversion is undefined, and
\* gives the value reduced modulo 2^32 or the largest unsigned int
Converted(d) ==
  LET m == Milliseconds(d)
  IN  IF m.over = 0 THEN {m.value} ELSE {m.value, UINT_MAX}

\* the timeout parameter set when the conversion gave converted
Configured(converted) ==
  IF converted = UInt(0, 0) THEN UINT_MAX ELSE converted

\* Z3ErrorSolverImpl::setCoreSolverTimeout: the assertion, the member and the
\* parameter
setCoreSolverTimeout(d, converted) ==
  IF d.secs < 0
    THEN [fatal |-> "timeout must be >= 0", timeout |-> timeout,
          param |-> timeoutInMilliSeconds]
    ELSE [fatal |-> "none", timeout |-> d, param |-> Configured(converted)]

(***************************************************************************)
(* Inputs of the calls.                                                    *)
(***************************************************************************)
Rd(array) == ReadExpr(array, 0)

\* value expressions handed to getError: reads, a concatenation of reads (its
\* left kid is a read, as the code assumes), a sign extension, a sum, a
\* constant, and two shapes getError does not handle
ValueExprs ==
  {Rd(a) : a \in Arrays}
    \cup {ConcatExpr(ReadExpr("x", 1), Rd("x")),
          SExtExpr(Rd("x"), 32),
          AddExpr(Rd("x"), Rd("y")),
          ConstantExpr(5, 32),
          ZExtExpr(Rd("x"), 32),
          AddExpr(SExtExpr(Rd("x"), 32), ZExtExpr(Rd("y"), 32)),
          SExtExpr(MulExpr(Rd("x"), Rd("y")), 32)}

\* the operand expressions of a binary instruction: both of one width
ArgPairs ==
  {<<Rd("x"), Rd("y")>>,
   <<SExtExpr(Rd("x"), 32), ConstantExpr(5, 32)>>}

\* the expression an opcode builds from its operands when nothing folds
OpExpr(opcode, arguments) ==
  [op |-> opcode, w |-> IF arguments = <<>> THEN Int8 ELSE arguments[1].w,
   val |-> 0, name |-> "", kids |-> arguments]

\* the result of an instruction: zero, a nonzero constant, or symbolic
ResultExprs(opcode, arguments) ==
  {ConstantExpr(0, arguments[1].w), ConstantExpr(5, arguments[1].w),
   OpExpr(opcode, arguments)}

\* addresses: the concrete ones and one that is not a constant
SymbolicAddress == ReadExpr("p", 0)
AddressExprs == {ConstantExpr(a, 64) : a \in Addrs} \cup {SymbolicAddress}

\* errors handed to executeStore: none, zero, an error read, or an error the
\* ledger holds for some value
StoreErrors ==
  {NullExpr, ConstantExpr(0, Int8), ReadExpr(ErrorName("x"), 0)}
    \cup {valueErrorMap[k] : k \in DOMAIN valueErrorMap}

Locations == {"dbg", "func"}
Bounds == {1}

(***************************************************************************)
(* The state machine.  last is the most recent call: its name, its         *)
(* arguments, the expression it returned, the number of CreateArray calls  *)
(* it made, the arrays it added to arrayErrorArrayMap and, for getError,   *)
(* whether the value had a non-null error in the map (hit); prev keeps, of *)
(* the call before it, the name, the value key, the returned expression    *)
(* and the number of CreateArray calls.  storeLog lists the (address,      *)
(* error) pairs of the executeStore calls made with a constant address and *)
(* a non-null error.                                                       *)
(***************************************************************************)
NoCall ==
  [op |-> "none", value |-> NullValue, opcode |-> "", operands |-> <<>>,
   arguments |-> <<>>, result |-> NullExpr, address |-> NullExpr,
   error |-> NullExpr, lError |-> NullExpr, rError |-> NullExpr,
   ret |-> NullExpr, created |-> 0, aemNew |-> {}, hit |-> FALSE]

\* no query yet
NoQuery ==
  [op |-> "none", query |-> [constraints |-> <<>>, expr |-> ""],
   objects |-> NullObjects,
   response |-> [result |-> "", reason |-> "", model |-> <<>>,
                 upper |-> <<>>],
   statusBefore |-> "FAILURE", ret |-> FALSE, hasSolution |-> FALSE,
   isValid |-> FALSE, infinity |-> <<>>, values |-> <<>>, epsilon |-> <<>>,
   trace |-> <<>>, result |-> Untouched]

Summary(call) ==
  [op |-> call.op, value |-> call.value, ret |-> call.ret,
   created |-> call.created]

Init ==
  /\ valueErrorMap = EmptyMap
  /\ arrayErrorArrayMap = [k \in {} |-> NullArray]
  /\ errorArrayCache = {}
  /\ createCalls = <<>>
  /\ storedError = EmptyMap
  /\ outputString = <<>>
  /\ fatal = "none"
  /\ last = NoCall
  /\ prev = Summary(NoCall)
  /\ storeLog = <<>>
  /\ nOps = 0
  /\ runStatusCode = "FAILURE"
  /\ stats = NoStats
  /\ liveSessions = {}
  /\ sessionsMade = 0
  /\ constructCache = {}
  /\ lastQuery = NoQuery
  /\ timeout = Duration(0, 0)
  /\ timeoutInMilliSeconds = UINT_MAX
  /\ lastTimeout = Duration(0, 0)

\* the process is alive and the run has calls left
Running(budget) == fatal = "none" /\ nOps < budget

\* the value has a non-null error in the map
Cached(vem, value) ==
  value # NullValue /\ value \in DOMAIN vem /\ ~isNull(vem[value])

\* the ledger after a call, and the call recorded
Commit(R, call) ==
  /\ valueErrorMap' = R.L.vem
  /\ arrayErrorArrayMap' = R.L.aem
  /\ errorArrayCache' = R.L.cache
  /\ createCalls' = R.L.calls
  /\ storedError' = R.L.store
  /\ outputString' = R.L.out
  /\ fatal' = R.L.fatal
  /\ last' = [call EXCEPT !.ret = R.ret,
                          !.created = Len(R.L.calls) - Len(createCalls),
                          !.aemNew = (DOMAIN R.L.aem) \ DOMAIN arrayErrorArrayMap]
  /\ prev' = Summary(last)
  /\ storeLog' = IF /\ call.op = "executeStore"
                    /\ isConstant(call.address)
                    /\ ~isNull(call.error)
                   THEN Append(storeLog, [addr |-> call.address.val,
                                          error |-> call.error])
                   ELSE storeLog
  /\ nOps' = nOps + 1
  /\ UNCHANGED <<solverVars, paramVars>>

GetError(budget) ==
  /\ Running(budget)
  /\ \E value \in Values \cup {NullValue}, valueExpr \in ValueExprs :
       Commit(getError(Ledger, valueExpr, value),
              [NoCall EXCEPT !.op = "getError", !.value = value,
                             !.arguments = <<valueExpr>>,
                             !.hit = Cached(valueErrorMap, value)])

\* a binary arithmetic instruction.  lError and rError record what the two
\* getError calls of the branch returned.
PropagateArith(budget) ==
  /\ Running(budget)
  /\ \E instr \in Values, opcode \in Opcodes \ {"Other"},
        arguments \in ArgPairs :
       \E lOp \in Earlier(instr), rOp \in Earlier(instr),
          result \in ResultExprs(opcode, arguments) :
         LET l == getError(Ledger, arguments[1], lOp)
             r == getError(l.L, arguments[2], rOp)
         IN  Commit(propagateError(Ledger, instr, opcode, <<lOp, rOp>>, result,
                                   arguments),
                    [NoCall EXCEPT !.op = "propagateError", !.value = instr,
                                   !.opcode = opcode, !.operands = <<lOp, rOp>>,
                                   !.arguments = arguments, !.result = result,
                                   !.lError = l.ret, !.rError = r.ret])

\* an instruction of any other opcode, with no, one or two operands
PropagateDefault(budget) ==
  /\ Running(budget)
  /\ \E instr \in Values, n \in 0 .. 2 :
       \E operands \in [1 .. n -> Earlier(instr)] :
         LET arguments == SubSeq(<<Rd("x"), Rd("y")>>, 1, n)
             result == OpExpr("Other", arguments)
         IN  Commit(propagateError(Ledger, instr, "Other", operands, result,
                                   arguments),
                    [NoCall EXCEPT !.op = "propagateError", !.value = instr,
                                   !.opcode = "Other", !.operands = operands,
                                   !.arguments = arguments, !.result = result])

ExecuteStore(budget) ==
  /\ Running(budget)
  /\ \E address \in AddressExprs, error \in StoreErrors :
       Commit(executeStore(Ledger, address, error),
              [NoCall EXCEPT !.op = "executeStore", !.address = address,
                             !.error = error])

ExecuteLoad(budget) ==
  /\ Running(budget)
  /\ \E value \in Values, address \in AddressExprs :
       Commit(executeLoad(Ledger, value, address),
              [NoCall EXCEPT !.op = "executeLoad", !.value = value,
                             !.address = address])

OutputErrorBound(budget) ==
  /\ Running(budget)
  /\ \E operand0 \in Values \cup {NullValue}, loc \in Locations,
        bound \in Bounds :
       Commit(outputErrorBound(Ledger, operand0, loc, bound),
              [NoCall EXCEPT !.op = "outputErrorBound", !.value = operand0])

\* any calls, MaxOps of them
Next ==
  \/ GetError(MaxOps)
  \/ PropagateArith(MaxOps)
  \/ PropagateDefault(MaxOps)
  \/ ExecuteStore(MaxOps)
  \/ ExecuteLoad(MaxOps)
  \/ OutputErrorBound(MaxOps)

Spec == Init /\ [][Next]_vars

\* a program without arithmetic instructions, MaxOpsNoArith calls
NextNoArith ==
  \/ GetError(MaxOpsNoArith)
  \/ PropagateDefault(MaxOpsNoArith)
  \/ ExecuteStore(MaxOpsNoArith)
  \/ ExecuteLoad(MaxOpsNoArith)
  \/ OutputErrorBound(MaxOpsNoArith)

SpecNoArith == Init /\ [][NextNoArith]_vars

(***************************************************************************)
(* The solver's state machine.  lastQuery is the most recent query: the    *)
(* entry point, its arguments, the backend's answer, runStatusCode before  *)
(* it, what it returned and wrote to its outputs, and the trace of its     *)
(* backend calls.                                                          *)
(***************************************************************************)
Query(constraints, expr) == [constraints |-> constraints, expr |-> expr]

Queries == {Query(<<"c1">>, "g"), Query(<<"c1", "c2">>, "h")}

ObjectLists == {<<>>, <<"x">>, <<"x", "y">>}

Numerals == {Numeral(42, 1), Numeral(0 - 2, 1), Numeral(1, 3)}

UpperBounds ==
  {[inf |-> Numeral(0, 1), bound |-> Numeral(42, 1), eps |-> Numeral(0, 1)],
   [inf |-> Numeral(1, 1), bound |-> Numeral(0, 1), eps |-> Numeral(0, 1)],
   [inf |-> Numeral(0, 1), bound |-> Numeral(1, 3),
    eps |-> Numeral(0 - 1, 1)]}

\* what Z3_solver_get_reason_unknown can say
Reasons == {"timeout", "canceled", "unknown", "(incomplete quantifiers)"}

Response(result, reason, model, upper) ==
  [result |-> result, reason |-> reason, model |-> model, upper |-> upper]

\* the answers of a check of a simple solver asked for n arrays
SolverResponses(n) ==
  {Response("TRUE", "", m, <<>>) : m \in [1 .. n -> Numerals]}
    \cup {Response("FALSE", "", <<>>, <<>>)}
    \cup {Response("UNDEF", r, <<>>, <<>>) : r \in Reasons}

\* the answers of a check of an optimizer with n objectives
OptimizeResponses(n) ==
  {Response("TRUE", "", <<>>, u) : u \in [1 .. n -> UpperBounds]}
    \cup {Response("FALSE", "", <<>>, <<>>)}
    \cup {Response("UNDEF", r, <<>>, <<>>) : r \in Reasons}

\* the values a bool the handler may leave unwritten can hold before the
\* call: any, when the answer is UNDEF; when the handler overwrites it, one
\* stands for both
Before(response) ==
  IF response.result = "UNDEF" THEN BOOLEAN ELSE {FALSE}

\* the solver after a query, and the query recorded
SolverCommit(r, call) ==
  /\ runStatusCode' = r.Z.status
  /\ stats' = r.Z.stats
  /\ liveSessions' = r.Z.live
  /\ sessionsMade' = r.Z.made
  /\ constructCache' = r.Z.cache
  /\ fatal' = r.Z.fatal
  /\ lastQuery' = [call EXCEPT !.statusBefore = runStatusCode,
                               !.ret = r.ret,
                               !.hasSolution = r.hasSolution,
                               !.isValid = r.isValid,
                               !.infinity = r.infinity,
                               !.values = r.values,
                               !.epsilon = r.epsilon,
                               !.trace = r.trace]
  /\ nOps' = nOps + 1
  /\ UNCHANGED <<ledgerVars, paramVars>>

\* SolverCommit for computeValue, which also writes the caller's result
ValueCommit(r, call) == SolverCommit(r, [call EXCEPT !.result = r.result])

ComputeTruth ==
  /\ Running(MaxQueries)
  /\ \E query \in Queries, response \in SolverResponses(0) :
     \E uninitialized \in Before(response) :
       SolverCommit(computeTruth(Solver, query, uninitialized, response),
                    [NoQuery EXCEPT !.op = "computeTruth", !.query = query,
                                    !.objects = NullObjects,
                                    !.response = response])

ComputeInitialValues ==
  /\ Running(MaxQueries)
  /\ \E query \in Queries, arrays \in ObjectLists :
       \E response \in SolverResponses(Len(arrays)) :
       \E hasSolution \in Before(response) :
         SolverCommit(computeInitialValues(Solver, query, arrays,
                                           hasSolution, response),
                      [NoQuery EXCEPT !.op = "computeInitialValues",
                                      !.query = query,
                                      !.objects = Objects(arrays),
                                      !.response = response])

ComputeOptimalValues ==
  /\ Running(MaxQueries)
  /\ \E query \in Queries, arrays \in ObjectLists :
       \E response \in OptimizeResponses(Len(arrays)) :
       \E hasSolution \in Before(response) :
         SolverCommit(computeOptimalValues(Solver, query, arrays,
                                           hasSolution, response),
                      [NoQuery EXCEPT !.op = "computeOptimalValues",
                                      !.query = query,
                                      !.objects = Objects(arrays),
                                      !.response = response])

\* the query recorded is the caller's; result is what the caller's result
\* holds after the call
ComputeValue ==
  /\ Running(MaxQueries)
  /\ \E query \in Queries :
       \E response \in SolverResponses(Len(ArraysOf(query.expr))) :
       \E uninitialized \in Before(response) :
         ValueCommit(computeValue(Solver, query, uninitialized, response),
                     [NoQuery EXCEPT
                        !.op = "computeValue",
                        !.query = query,
                        !.objects = Objects(ArraysOf(query.expr)),
                        !.response = response])

NextSolver ==
  \/ ComputeTruth
  \/ ComputeInitialValues
  \/ ComputeOptimalValues
  \/ ComputeValue

SpecSolver == Init /\ [][NextSolver]_vars

(***************************************************************************)
(* The timeout setting on its own.                                         *)
(***************************************************************************)
\* short durations, a long duration whose milliseconds fit an unsigned int,
\* one too long to fit, and a negative one
Durations ==
  {Duration(0, k) : k \in 0 .. MaxTicks}
    \cup {Duration(4294966, 0), Duration(4294968, 0), Duration(0 - 1, 0)}

SetCoreSolverTimeout ==
  /\ Running(MaxSets)
  /\ \E d \in Durations :
       \E converted \in Converted(d) :
         LET r == setCoreSolverTimeout(d, converted)
         IN  /\ fatal' = r.fatal
             /\ timeout' = r.timeout
             /\ timeoutInMilliSeconds' = r.param
             /\ lastTimeout' = d
             /\ nOps' = nOps + 1
             /\ UNCHANGED <<ledgerVars, solverVars>>

NextTimeout == SetCoreSolverTimeout

SpecTimeout == Init /\ [][NextTimeout]_vars

(***************************************************************************)
(* Properties.                                                             *)
(***************************************************************************)
Zero == ConstantExpr(0, Int8)

\* the last call returned to its caller
Returned == fatal = "none"

\* the error of the most recent logged store to an address, or zero
LastStored(log, addr) ==
  LET hits == {i \in 1 .. Len(log) : log[i].addr = addr}
  IN  IF hits = {} THEN Zero
      ELSE log[CHOOSE i \in hits : \A j \in hits : j <= i].error

\* C1: a load at a constant address returns the error of the most recent
\* executeStore to that address made with a non-null error, and zero when
\* there was none; stores to other addresses do not matter.
C1_LoadReturnsLastStore ==
  (last.op = "executeLoad" /\ isConstant(last.address))
    => last.ret = LastStored(storeLog, last.address.val)

\* a load at an address stored to before the latest store, which went to
\* another address with another error
C1_Witness ==
  /\ last.op = "executeLoad"
  /\ Len(storeLog) = 2
  /\ storeLog[1].addr = last.address.val
  /\ storeLog[2].addr # last.address.val
  /\ storeLog[2].error # storeLog[1].error
  /\ last.ret = storeLog[1].error

\* C2: a getError for a non-null value that directly follows a getError for
\* the same value returns the same expression, makes no CreateArray call and
\* adds nothing to arrayErrorArrayMap, whatever expression it is given.
C2_SecondGetErrorCached ==
  (/\ last.op = "getError"
   /\ prev.op = "getError"
   /\ last.value = prev.value
   /\ last.value # NullValue
   /\ Returned)
    => /\ last.ret = prev.ret
       /\ last.created = 0
       /\ last.aemNew = {}

\* the second call is given a read of y, an array with no error array yet,
\* and answers with the error of x the first call derived
C2_Witness ==
  /\ last.op = "getError"
  /\ prev.op = "getError"
  /\ last.value = prev.value
  /\ last.value # NullValue
  /\ Returned
  /\ last.arguments = <<Rd("y")>>
  /\ last.ret = ReadExpr(ErrorName("x"), 0)
  /\ "y" \notin DOMAIN arrayErrorArrayMap

\* every associated array maps to the array named after it, the cache holds
\* exactly those arrays, and each was created by exactly one CreateArray call
OneErrorArrayPerArray ==
  /\ \A a \in DOMAIN arrayErrorArrayMap : arrayErrorArrayMap[a] = ErrorName(a)
  /\ errorArrayCache = {ErrorName(a) : a \in DOMAIN arrayErrorArrayMap}
  /\ Len(createCalls) = Cardinality(DOMAIN arrayErrorArrayMap)
  /\ \A i, j \in 1 .. Len(createCalls) :
       createCalls[i] = createCalls[j] => i = j
  /\ \A i \in 1 .. Len(createCalls) : createCalls[i] \in errorArrayCache

\* C3: arrayErrorArrayMap holds one error array per array, named
\* _unspecified_error_<name> and created once, and no call replaces or
\* removes an association.
C3_OneErrorArrayKept ==
  [][/\ OneErrorArrayPerArray'
     /\ \A a \in DOMAIN arrayErrorArrayMap :
          /\ a \in DOMAIN arrayErrorArrayMap'
          /\ arrayErrorArrayMap'[a] = arrayErrorArrayMap[a]]_vars

\* a Concat over x resolved, not from the value cache, right after the call
\* that created the error array of x: it creates nothing
C3_Witness ==
  /\ last.op = "getError"
  /\ last.value = NullValue
  /\ last.arguments[1].op = "Concat"
  /\ last.ret = ReadExpr("_unspecified_error_x", 0)
  /\ last.created = 0
  /\ prev.op = "getError"
  /\ prev.created = 1
  /\ createCalls = <<"_unspecified_error_x">>

\* the error of an operand at the operand's width
ext(error, operand) ==
  IF error.w = operand.w THEN error ELSE ZExtExpr(error, operand.w)

\* lhsError * lhsOperand + rhsError * rhsOperand of the last call
SumOfLast ==
  AddExpr(MulExpr(ext(last.lError, last.arguments[1]), last.arguments[1]),
          MulExpr(ext(last.rError, last.arguments[2]), last.arguments[2]))

NonzeroConstant(e) == isConstant(e) /\ e.val # 0

\* the last call was propagateError for one of these opcodes and returned
Propagated(opcodes) ==
  last.op = "propagateError" /\ last.opcode \in opcodes /\ Returned

\* C4: Add and Sub with a result that is not a nonzero constant store and
\* return the weighted sum of the operand errors, not the result expression.
C4_UnnormalizedSumStored ==
  (Propagated({"Add", "Sub"}) /\ ~NonzeroConstant(last.result))
    => /\ last.ret = SumOfLast
       /\ valueErrorMap[last.value] = last.ret
       /\ last.ret # last.result

\* C5: Add and Sub divide the weighted sum only by a nonzero constant.
C5_DivisorNonzeroConstant ==
  (/\ Propagated({"Add", "Sub"})
   /\ last.ret.op = "UDiv"
   /\ last.ret.kids[1] = SumOfLast)
    => NonzeroConstant(last.ret.kids[2])

\* C6: Add and Sub with a nonzero constant result r store and return the
\* weighted sum divided by r, the same expression for both opcodes.
C6_NormalizedByConstant ==
  (Propagated({"Add", "Sub"}) /\ NonzeroConstant(last.result))
    => /\ last.ret = UDivExpr(SumOfLast, last.result)
       /\ valueErrorMap[last.value] = last.ret

\* a Sub normalized by 5, with two different operand errors, one of the
\* operand's width and one narrower
C6_Witness ==
  /\ Propagated({"Sub"})
  /\ last.result = ConstantExpr(5, 32)
  /\ last.lError # last.rError
  /\ last.lError.w = last.arguments[1].w
  /\ last.rError.w < last.arguments[2].w
  /\ last.ret.op = "UDiv"

\* C7: Mul, UDiv and SDiv store and return the sum of the two operand
\* errors, each at its operand's width, whatever the result is.
C7_ProductErrorsAdd ==
  Propagated({"Mul", "UDiv", "SDiv"})
    => /\ last.ret = AddExpr(ext(last.lError, last.arguments[1]),
                             ext(last.rError, last.arguments[2]))
       /\ valueErrorMap[last.value] = last.ret

\* an SDiv whose left error is wider than its operand and whose right error
\* has the operand's width
C7_Witness ==
  /\ Propagated({"SDiv"})
  /\ last.lError.w > last.arguments[1].w
  /\ last.rError.w = last.arguments[2].w
  /\ last.ret.kids[1].op = "ZExt"
  /\ last.ret.kids[2] = last.rError

\* the error of the lowest-index operand valueErrorMap tracks, or zero
RECURSIVE FirstTracked(_, _)
FirstTracked(operands, i) ==
  IF i > Len(operands) THEN Zero
  ELSE IF operands[i] \in DOMAIN valueErrorMap
    THEN valueErrorMap[operands[i]]
  ELSE FirstTracked(operands, i + 1)

\* C8: the default branch returns a non-null expression: the error of the
\* lowest-index tracked operand, or zero when no operand is tracked.
C8_DefaultForwardsError ==
  Propagated({"Other"})
    => /\ ~isNull(last.ret)
       /\ last.ret = FirstTracked(last.operands, 1)

\* C9: propagateError leaves valueErrorMap[instr] equal to what it returns,
\* and a getError for instr that follows returns that expression.
C9_PropagatedThenCached ==
  /\ Propagated(Opcodes) => valueErrorMap[last.value] = last.ret
  /\ (/\ last.op = "getError"
      /\ prev.op = "propagateError"
      /\ last.value = prev.value
      /\ Returned)
       => last.ret = prev.ret

\* the call that is about to be recorded is a store or a load at an address
\* that is not a constant
SymbolicAccess(call) ==
  call.op \in {"executeStore", "executeLoad"} /\ ~isConstant(call.address)

\* C10 as claimed: every executeStore and executeLoad at a non-constant
\* address ends in the fatal state and leaves storedError alone, whatever the
\* error argument.
C10_SymbolicAddressFatal ==
  [][SymbolicAccess(last')
       => fatal' = "non-constant address" /\ storedError' = storedError]_vars

\* C10 amended: executeLoad, and executeStore with a non-null error, at a
\* non-constant address end in the fatal state; executeStore with a null
\* error returns; none of them changes storedError.
C10_SymbolicAddressFatalUnlessNull ==
  [][SymbolicAccess(last')
       => /\ storedError' = storedError
          /\ IF last'.op = "executeStore" /\ isNull(last'.error)
               THEN fatal' = "none"
               ELSE fatal' = "non-constant address"]_vars

\* a store of a non-null error at the symbolic address, after a store that
\* filled storedError: the process has ended
C10_Witness ==
  /\ last.op = "executeStore"
  /\ last.address = SymbolicAddress
  /\ ~isNull(last.error)
  /\ fatal = "non-constant address"
  /\ DOMAIN storedError # {}

\* C11 as stated: in every ledger state a getError with a constant value
\* expression returns Constant(0) and creates no ErrorArray.
C11_ConstantErrorZero ==
  (last.op = "getError" /\ isConstant(last.arguments[1]) /\ Returned)
    => (last.ret = Zero /\ last.created = 0)

\* C11: a getError with a constant value expression creates no ErrorArray;
\* it returns Constant(0) when the value is null or has no non-null error in
\* the map, and the error already in the map otherwise.
C11_ConstantErrorZeroUnlessCached ==
  (last.op = "getError" /\ isConstant(last.arguments[1]) /\ Returned)
    => /\ last.created = 0
       /\ last.aemNew = {}
       /\ ~last.hit => last.ret = Zero
       /\ last.hit => last.ret = valueErrorMap[last.value]
       /\ last.value # NullValue => valueErrorMap[last.value] = last.ret

\* a constant whose value was not in the map got the error zero, memoized
C11_Witness ==
  /\ last.op = "getError"
  /\ isConstant(last.arguments[1])
  /\ last.arguments[1].w # Int8
  /\ ~last.hit
  /\ last.value # NullValue
  /\ last.ret = Zero
  /\ valueErrorMap[last.value] = Zero

\* the expression makes getError fail: it is none of Concat, Read, SExt, Add
\* and Constant, or a SExt or Add whose recursion meets such an expression
RECURSIVE Malformed(_)
Malformed(e) ==
  IF e.op = "SExt" THEN Malformed(e.kids[1])
  ELSE IF e.op = "Add" THEN Malformed(e.kids[1]) \/ Malformed(e.kids[2])
  ELSE e.op \notin {"Concat", "Read", "Constant"}

\* C12: a getError on a value without a non-null error in the map, given an
\* expression that is none of Concat, Read, SExt, Add and Constant, or an Add
\* or SExt containing one, ends in the fatal state "malformed expression";
\* no error expression is memoized for the value.
C12_MalformedIsFatal ==
  (last.op = "getError" /\ ~last.hit /\ Malformed(last.arguments[1]))
    => /\ fatal = "malformed expression"
       /\ isNull(last.ret)
       /\ last.value # NullValue => isNull(valueErrorMap[last.value])

\* an Add whose right operand is a ZExt failed after the error array of its
\* left operand had been created
C12_Witness ==
  /\ last.op = "getError"
  /\ last.arguments[1].op = "Add"
  /\ last.arguments[1].kids[2].op = "ZExt"
  /\ ~last.hit
  /\ last.value # NullValue
  /\ last.created = 1
  /\ fatal = "malformed expression"
  /\ isNull(valueErrorMap[last.value])

(***************************************************************************)
(* Properties of the solver.                                               *)
(***************************************************************************)
\* the number of arrays the last query asked values for
Requested == Len(lastQuery.objects.arrays)

\* the backend answered the last query UNDEF with one of these reasons
Undefined(reasons) ==
  lastQuery.response.result = "UNDEF" /\ lastQuery.response.reason \in reasons

Asserted(trace) ==
  {[neg |-> trace[i].neg, arg |-> trace[i].arg] :
     i \in {j \in DOMAIN trace : trace[j].ev = "assert"}}

Objectives(trace) ==
  LET RECURSIVE Pick(_)
      Pick(i) == IF i > Len(trace) THEN <<>>
                 ELSE IF trace[i].ev = "maximize"
                   THEN <<trace[i].arg>> \o Pick(i + 1)
                 ELSE Pick(i + 1)
  IN  Pick(1)

\* C14: computeOptimalValues hands the backend every constraint and the
\* negation of the goal, and one maximize objective per requested array in
\* the order given; the asserted set is that of computeInitialValues for
\* the same query.
C14_OptimizeAssertsNegatedGoal ==
  lastQuery.op = "computeOptimalValues" =>
    /\ Asserted(lastQuery.trace) =
          {[neg |-> FALSE, arg |-> lastQuery.query.constraints[i]] :
             i \in DOMAIN lastQuery.query.constraints}
            \cup {[neg |-> TRUE, arg |-> lastQuery.query.expr]}
    /\ Asserted(lastQuery.trace) =
          Asserted(computeInitialValues(Solver, lastQuery.query,
                                        lastQuery.objects.arrays, FALSE,
                                        lastQuery.response).trace)
    /\ Objectives(lastQuery.trace) = lastQuery.objects.arrays

\* C15: after a Solvable computeOptimalValues for n arrays each of infinity,
\* values and epsilon holds n entries.
C15_ThreeOutputsPerArray ==
  (lastQuery.op = "computeOptimalValues" /\ Returned
     /\ runStatusCode = "SOLVABLE")
    => /\ Len(lastQuery.infinity) = Requested
       /\ Len(lastQuery.values) = Requested
       /\ Len(lastQuery.epsilon) = Requested

\* C16: a computeTruth that returns has set isValid to true exactly when
\* the backend reported unsat; isValid is not true after Timeout or Failure.
C16_ValidIffUnsat ==
  (lastQuery.op = "computeTruth" /\ Returned)
    => (lastQuery.isValid <=> lastQuery.response.result = "FALSE")

\* 1 when the condition holds, else 0
Count(cond) == IF cond THEN 1 ELSE 0

\* C17: every query steps the query counter once; the counterexample
\* counter steps exactly for the queries that ask for per-array values; the
\* invalid counter steps once for each Solvable outcome and the valid
\* counter once for each Unsolvable one, neither for Timeout or Failure;
\* valid + invalid never exceeds the number of queries.
C17_Counters ==
  [][/\ stats'.queries = stats.queries + 1
     /\ stats'.queryCounterexamples =
          stats.queryCounterexamples + Count(~lastQuery'.objects.null)
     /\ stats'.queriesInvalid =
          stats.queriesInvalid
            + Count(fatal' # "abort" /\ lastQuery'.response.result = "TRUE")
     /\ stats'.queriesValid =
          stats.queriesValid
            + Count(fatal' # "abort" /\ lastQuery'.response.result = "FALSE")
     /\ stats'.queriesValid + stats'.queriesInvalid <= stats'.queries
     /\ stats.queriesValid + stats.queriesInvalid <= stats.queries]_vars

\* three queries: one valid, one invalid, one timed out; one of them asked
\* for values
C17_Witness ==
  /\ stats = [queries |-> 3, queryCounterexamples |-> 1, queriesValid |-> 1,
              queriesInvalid |-> 1]
  /\ runStatusCode = "TIMEOUT"
  /\ Returned

\* the places of an event in a trace
Places(trace, ev) == {i \in DOMAIN trace : trace[i].ev = ev}

\* C18: each query makes a session of its own; whenever a query returns,
\* its session has been released and the construct cache cleared, the
\* release after the response was decoded and the clearing after the
\* release; no session is live between two queries.
C18_SessionReleased ==
  /\ sessionsMade = stats.queries
  /\ Returned =>
       /\ liveSessions = {}
       /\ constructCache = {}
       /\ lastQuery.op # "none" =>
            LET made == Places(lastQuery.trace, "mk_simple_solver")
                          \cup Places(lastQuery.trace, "mk_optimize")
                checked == Places(lastQuery.trace, "check")
                decoded == Places(lastQuery.trace, "response")
                released == Places(lastQuery.trace, "dec_ref")
                cleared == Places(lastQuery.trace, "clearConstructCache")
            IN  /\ made = {1}
                /\ Cardinality(checked) = 1
                /\ Cardinality(decoded) = 1
                /\ Cardinality(released) = 1
                /\ cleared = {Len(lastQuery.trace)}
                /\ \A c \in checked, r \in decoded, d \in released :
                     c < r /\ r < d /\ d < Len(lastQuery.trace)

\* the third query, an optimization that timed out, left nothing behind
C18_Witness ==
  /\ sessionsMade = 3
  /\ lastQuery.op = "computeOptimalValues"
  /\ runStatusCode = "TIMEOUT"
  /\ Returned
  /\ liveSessions = {}
  /\ constructCache = {}

\* C19: every buffer computeInitialValues writes has 8 bytes and is the
\* little-endian image of the IEEE-754 double equal to the model's numeral
\* for the array, for an integer numeral as for a rational one.
C19_BufferIsDouble ==
  (lastQuery.op = "computeInitialValues" /\ Returned
     /\ runStatusCode = "SOLVABLE")
    => \A i \in 1 .. Requested :
         /\ Len(lastQuery.values[i]) = 8
         /\ lastQuery.values[i] =
              DoubleBytes(lastQuery.response.model[i].num,
                          lastQuery.response.model[i].den)

\* the status the backend's answer stands for
StatusOf(response) ==
  IF response.result = "TRUE" THEN "SOLVABLE"
  ELSE IF response.result = "FALSE" THEN "UNSOLVABLE"
  ELSE IF response.reason \in {"timeout", "canceled"} THEN "TIMEOUT"
  ELSE "FAILURE"

\* C20: a timeout or cancellation never aborts: the query returns false and
\* getOperationStatusCode reports Timeout; a query does not inherit the
\* status of the one before it; a query returns true exactly when its
\* status is Solvable or Unsolvable; getOperationStatusCode reports the
\* status of the most recent query.
C20_StatusOfLastQuery ==
  lastQuery.op # "none" =>
    /\ Undefined({"timeout", "canceled"}) =>
         /\ Returned
         /\ ~lastQuery.ret
         /\ getOperationStatusCode(Solver) = "TIMEOUT"
    /\ Returned =>
         (lastQuery.ret <=>
            getOperationStatusCode(Solver) \in {"SOLVABLE", "UNSOLVABLE"})
    /\ getOperationStatusCode(Solver) = StatusOf(lastQuery.response)

\* a query ended Solvable right after one that timed out
C20_Witness ==
  /\ lastQuery.statusBefore = "TIMEOUT"
  /\ getOperationStatusCode(Solver) = "SOLVABLE"
  /\ lastQuery.ret
  /\ Returned

(***************************************************************************)
(* Properties of computeValue and of the timeout setting.                  *)
(***************************************************************************)
\* C25: computeValue returns true only after a satisfying assignment of
\* the constraints (the goal replaced by false) was obtained, with result
\* the goal evaluated under it; after Timeout or Failure it returns false
\* and leaves result as it was; for unsatisfiable constraints it does not
\* return: the assertion "state has invalid constraint set" fires.
C25_ValueOnlyFromAssignment ==
  lastQuery.op = "computeValue" =>
    /\ Asserted(lastQuery.trace) =
         {[neg |-> FALSE, arg |-> lastQuery.query.constraints[i]] :
            i \in DOMAIN lastQuery.query.constraints}
           \cup {[neg |-> TRUE, arg |-> "false"]}
    /\ (Returned /\ lastQuery.ret) =>
         /\ lastQuery.response.result = "TRUE"
         /\ Len(lastQuery.values) = Len(ArraysOf(lastQuery.query.expr))
         /\ \A i \in DOMAIN lastQuery.values :
              lastQuery.values[i] = Encode(lastQuery.response.model[i])
         /\ lastQuery.result =
              Evaluated(lastQuery.query.expr,
                        ArraysOf(lastQuery.query.expr), lastQuery.values)
    /\ lastQuery.response.result = "TRUE" => (Returned /\ lastQuery.ret)
    /\ (Returned /\ runStatusCode \in {"TIMEOUT", "FAILURE"}) =>
         ~lastQuery.ret /\ lastQuery.result = Untouched
    /\ lastQuery.response.result = "FALSE" =>
         /\ fatal = "state has invalid constraint set"
         /\ lastQuery.result = Untouched

\* a computeValue on a goal over two arrays returned the goal evaluated,
\* after a computeValue that timed out
C25_Witness ==
  /\ lastQuery.op = "computeValue"
  /\ lastQuery.statusBefore = "TIMEOUT"
  /\ Returned
  /\ lastQuery.ret
  /\ lastQuery.result.expr = "h"
  /\ Len(lastQuery.result.values) = 2
  /\ lastQuery.result.values[1] # lastQuery.result.values[2]

\* the last call of setCoreSolverTimeout returned
TimeoutSet == nOps > 0 /\ Returned

\* C21: setCoreSolverTimeout(0) sets the largest unsigned int (no timeout);
\* every duration above zero sets a finite timeout, its milliseconds
\* rounded to the nearest integer; only the duration zero sets no timeout.
C21_NoTimeoutOnlyForZero ==
  TimeoutSet =>
    IF lastTimeout = Duration(0, 0)
      THEN timeoutInMilliSeconds = UINT_MAX
      ELSE /\ timeoutInMilliSeconds # UINT_MAX
           /\ Milliseconds(lastTimeout).over = 0
           /\ timeoutInMilliSeconds = Milliseconds(lastTimeout).value

(***************************************************************************)
(* Properties of the report and of the frames of the ledger operations.    *)
(***************************************************************************)
\* the report is empty, or assertions with one divider between neighbours
Alternating(out) ==
  /\ out # <<>> => Len(out) % 2 = 1
  /\ \A i \in DOMAIN out :
       out[i].kind = (IF i % 2 = 1 THEN "entry" ELSE "divider")

\* C22: the report is append-only: an outputErrorBound call keeps the old
\* content as a prefix and appends one assertion, after a divider exactly
\* when the report was not empty, so n calls leave n assertions and n-1
\* dividers; no other ledger operation changes the report.
C22_ReportAppendOnly ==
  /\ [] Alternating(outputString)
  /\ [][IF last'.op = "outputErrorBound" /\ nOps' = nOps + 1
          THEN /\ Len(outputString') =
                   Len(outputString) + (IF outputString = <<>> THEN 1 ELSE 2)
               /\ SubSeq(outputString', 1, Len(outputString)) = outputString
               /\ outputString'[Len(outputString')].kind = "entry"
               /\ outputString # <<>> =>
                    outputString'[Len(outputString) + 1] = Divider
          ELSE outputString' = outputString]_vars

\* three outputErrorBound calls left three assertions and two dividers
C22_Witness ==
  /\ last.op = "outputErrorBound"
  /\ nOps = 3
  /\ Len(outputString) = 5
  /\ outputString[2] = Divider
  /\ outputString[4] = Divider
  /\ outputString[1].loc # outputString[3].loc

\* the maps m and n agree on every key but k
SameBut(m, n, k) ==
  /\ (DOMAIN m) \ {k} = (DOMAIN n) \ {k}
  /\ \A j \in (DOMAIN m) \ {k} : m[j] = n[j]

\* C23: executeStore with a null error changes nothing of the ledger; with
\* a non-null error it changes only the storedError entry of its address;
\* executeLoad changes only the valueErrorMap entry of its value and leaves
\* storedError as it is, a never-stored address staying absent; neither
\* changes arrayErrorArrayMap or the report; storedError holds no null
\* error.
C23_MemoryFrame ==
  /\ [] (\A a \in DOMAIN storedError : ~isNull(storedError[a]))
  /\ [][(nOps' = nOps + 1 /\ last'.op = "executeStore") =>
          /\ UNCHANGED <<valueErrorMap, arrayErrorArrayMap, errorArrayCache,
                         createCalls, outputString>>
          /\ isNull(last'.error) => UNCHANGED <<storedError, fatal>>
          /\ fatal' # "none" => UNCHANGED storedError
          /\ (~isNull(last'.error) /\ fatal' = "none") =>
               /\ SameBut(storedError', storedError, last'.address.val)
               /\ storedError'[last'.address.val] = last'.error]_vars
  /\ [][(nOps' = nOps + 1 /\ last'.op = "executeLoad") =>
          /\ UNCHANGED <<arrayErrorArrayMap, errorArrayCache, createCalls,
                         storedError, outputString>>
          /\ fatal' # "none" => UNCHANGED valueErrorMap
          /\ fatal' = "none" =>
               SameBut(valueErrorMap', valueErrorMap, last'.value)]_vars

\* a load from an address never stored to, with another address stored:
\* the address is still absent
C23_Witness ==
  /\ last.op = "executeLoad"
  /\ Returned
  /\ isConstant(last.address)
  /\ last.address.val \notin DOMAIN storedError
  /\ storedError # EmptyMap
  /\ last.ret = Zero
  /\ valueErrorMap[last.value] = Zero

\* C24: after any calls that returned, every key of valueErrorMap maps to
\* a non-null error; an outputErrorBound whose first operand is untracked
\* leaves valueErrorMap as it was.
C24_NoNullErrorInMap ==
  Returned =>
    /\ \A k \in DOMAIN valueErrorMap : ~isNull(valueErrorMap[k])
    /\ (nOps = 1 /\ last.op = "outputErrorBound") =>
         valueErrorMap = EmptyMap

====
